---- MODULE Spec2Model ----
(***************************************************************************)
(* ThyroPulse: the risk scorer predictThyroidRisk (src/utils/thyroidModel) *)
(* and the form that calls it.                                             *)
(*                                                                         *)
(* A JavaScript string is a sequence of one-character strings; an absent   *)
(* (undefined) optional field is the one-element sequence Undefined.  A    *)
(* JavaScript number is a record [k, m, d]: k = "fin" stands for the       *)
(* decimal m / 10^d (normalised: d = 0 or m not a multiple of 10),         *)
(* k = "inf" for +Infinity (m = 1) or -Infinity (m = -1), k = "nan" for    *)
(* NaN.  Decimals are kept exact: the strings of the model are short, so   *)
(* the rounding of a double never moves a value across a range bound.      *)
(***************************************************************************)
EXTENDS Integers, Sequences, FiniteSets, TLC

\* the scorer called on its own
VARIABLES input, result, pc, seen

\* the application: the state of the form page, of the heap of arrays that
\* it holds, of localStorage, of the pending timers, of the route and of the
\* Results and PatientHistory pages, and the last notification
VARIABLES form, labAnalysis, heap, calls, stored, now, timers, page,
          routeId, patient, loading, patients, toast, activeTab

scorerVars == <<input, result, pc, seen>>

appVars ==
  <<form, labAnalysis, heap, calls, stored, now, timers, page, routeId,
    patient, loading, patients, toast, activeTab>>

vars == <<scorerVars, appVars>>

----------------------------------------------------------------------------
(* JavaScript numbers *)

NaN == [k |-> "nan", m |-> 0, d |-> 0]

Infinity == [k |-> "inf", m |-> 1, d |-> 0]

NegInfinity == [k |-> "inf", m |-> -1, d |-> 0]

RECURSIVE Pow10(_)
Pow10(n) == IF n <= 0 THEN 1 ELSE 10 * Pow10(n - 1)

RECURSIVE Normal(_, _)
Normal(m, d) ==
  IF d > 0 /\ m % 10 = 0 THEN Normal(m \div 10, d - 1)
  ELSE [k |-> "fin", m |-> m, d |-> d]

\* the number m / 10^d
Dec(m, d) == Normal(m, d)

Num(n) == Dec(n, 0)

isNaN(a) == a.k = "nan"

\* a < b on JavaScript numbers: false as soon as one side is NaN
Lt(a, b) ==
  IF isNaN(a) \/ isNaN(b) THEN FALSE
  ELSE IF a.k = "inf" THEN a.m < 0 /\ ~(b.k = "inf" /\ b.m < 0)
  ELSE IF b.k = "inf" THEN b.m > 0
  ELSE a.m * Pow10(b.d) < b.m * Pow10(a.d)

\* a > b
Gt(a, b) == Lt(b, a)

----------------------------------------------------------------------------
(* JavaScript strings *)

Undefined == <<"undefined">>

Digits == <<"0", "1", "2", "3", "4", "5", "6", "7", "8", "9">>

HexLower == <<"a", "b", "c", "d", "e", "f">>

HexUpper == <<"A", "B", "C", "D", "E", "F">>

WhiteSpace == {" ", "\t", "\n"}

InfinityChars == <<"I", "n", "f", "i", "n", "i", "t", "y">>

IsDigit(c) == \E i \in 1..10 : Digits[i] = c

DigitVal(c) == (CHOOSE i \in 1..10 : Digits[i] = c) - 1

IsHexDigit(c) ==
  IsDigit(c) \/ (\E i \in 1..6 : HexLower[i] = c \/ HexUpper[i] = c)

HexVal(c) ==
  IF IsDigit(c) THEN DigitVal(c)
  ELSE 9 + (CHOOSE i \in 1..6 : HexLower[i] = c \/ HexUpper[i] = c)

\* first index >= i of s that holds no white space (Len(s) + 1 if none)
RECURSIVE SkipWS(_, _)
SkipWS(s, i) ==
  IF i <= Len(s) /\ s[i] \in WhiteSpace THEN SkipWS(s, i + 1) ELSE i

\* index after the longest run of decimal digits of s that starts at i
RECURSIVE DigitsEnd(_, _)
DigitsEnd(s, i) ==
  IF i <= Len(s) /\ IsDigit(s[i]) THEN DigitsEnd(s, i + 1) ELSE i

RECURSIVE HexEnd(_, _)
HexEnd(s, i) ==
  IF i <= Len(s) /\ IsHexDigit(s[i]) THEN HexEnd(s, i + 1) ELSE i

\* the value of the digits s[i] .. s[j-1] in the given radix (0 if none)
RECURSIVE ToInt(_, _, _, _)
ToInt(s, i, j, radix) ==
  IF j <= i THEN 0
  ELSE ToInt(s, i, j - 1, radix) * radix + HexVal(s[j - 1])

\* String.prototype.trim() === ""
TrimIsEmpty(s) == SkipWS(s, 1) > Len(s)

\* JavaScript truthiness of an optional string
Truthy(s) == s # Undefined /\ s # <<>>

\* a sign character at index i of s
HasSign(s, i) == i <= Len(s) /\ s[i] \in {"+", "-"}

IsMinus(s, i) == i <= Len(s) /\ s[i] = "-"

AfterSign(s, i) == IF HasSign(s, i) THEN i + 1 ELSE i

Signed(neg, n) == IF neg THEN 0 - n ELSE n

\* index after the fraction that starts at i: a dot and its digits, if any
FractionEnd(s, i) ==
  IF i <= Len(s) /\ s[i] = "." THEN DigitsEnd(s, i + 1) ELSE i

\* the exponent part at index i of s (e, sign, digits); 0 when it is not one
Exponent(s, i) ==
  IF i <= Len(s) /\ s[i] \in {"e", "E"}
  THEN Signed(IsMinus(s, i + 1),
              ToInt(s, AfterSign(s, i + 1),
                    DigitsEnd(s, AfterSign(s, i + 1)), 10))
  ELSE 0

\* mant * 10^(exp - nFrac)
Scaled(mant, nFrac, exp) ==
  IF exp >= nFrac THEN Dec(mant * Pow10(exp - nFrac), 0)
  ELSE Dec(mant, nFrac - exp)

\* the decimal literal of s with integer digits i1 .. i2-1 and fraction
\* i2 .. i3-1 (the dot included); NaN when it has no digit
DecimalLiteral(s, neg, i1, i2, i3) ==
  IF (i2 - i1) + (IF i3 > i2 THEN i3 - (i2 + 1) ELSE 0) = 0 THEN NaN
  ELSE Scaled(Signed(neg, ToInt(s, i1, i2, 10)
                            * Pow10(IF i3 > i2 THEN i3 - (i2 + 1) ELSE 0)
                            + (IF i3 > i2 THEN ToInt(s, i2 + 1, i3, 10) ELSE 0)),
              IF i3 > i2 THEN i3 - (i2 + 1) ELSE 0,
              Exponent(s, i3))

\* the literal of s that starts at i1, after the white space and the sign
Unsigned(s, neg, i1) ==
  IF i1 + 7 <= Len(s) /\ SubSeq(s, i1, i1 + 7) = InfinityChars
  THEN (IF neg THEN NegInfinity ELSE Infinity)
  ELSE DecimalLiteral(s, neg, i1, DigitsEnd(s, i1),
                      FractionEnd(s, DigitsEnd(s, i1)))

\* parseFloat: white space, sign, then the longest prefix that is a decimal
\* literal (digits, fraction, exponent) or Infinity; NaN when there is none
parseFloat(s) ==
  IF s = Undefined THEN NaN
  ELSE Unsigned(s, IsMinus(s, SkipWS(s, 1)), AfterSign(s, SkipWS(s, 1)))

\* the digits of an integer literal of s from i on, 0x prefix included
IsHex(s, i) == i + 1 <= Len(s) /\ s[i] = "0" /\ s[i + 1] \in {"x", "X"}

IntegerLiteral(s, neg, i2, i3, radix) ==
  IF i3 = i2 THEN NaN ELSE Num(Signed(neg, ToInt(s, i2, i3, radix)))

UnsignedInt(s, neg, i1) ==
  IF IsHex(s, i1)
  THEN IntegerLiteral(s, neg, i1 + 2, HexEnd(s, i1 + 2), 16)
  ELSE IntegerLiteral(s, neg, i1, DigitsEnd(s, i1), 10)

\* parseInt without a radix: white space, sign, an optional 0x prefix, then
\* the longest run of digits of the radix; NaN when there is none
parseInt(s) ==
  IF s = Undefined THEN NaN
  ELSE UnsignedInt(s, IsMinus(s, SkipWS(s, 1)), AfterSign(s, SkipWS(s, 1)))

\* index after the last character of s that is no white space (1 if none)
RECURSIVE TrimEnd(_, _)
TrimEnd(s, j) ==
  IF j >= 1 /\ s[j] \in WhiteSpace THEN TrimEnd(s, j - 1) ELSE j + 1

\* index after the exponent part that starts at i; i when the e has no digit
ExponentEnd(s, i) ==
  IF /\ i <= Len(s)
     /\ s[i] \in {"e", "E"}
     /\ DigitsEnd(s, AfterSign(s, i + 1)) > AfterSign(s, i + 1)
  THEN DigitsEnd(s, AfterSign(s, i + 1))
  ELSE i

\* index after the numeric literal that starts at i1, after the sign
LiteralEnd(s, i1) ==
  IF i1 + 7 <= Len(s) /\ SubSeq(s, i1, i1 + 7) = InfinityChars
  THEN i1 + 8
  ELSE ExponentEnd(s, FractionEnd(s, DigitsEnd(s, i1)))

\* the number that the characters a .. b-1 of s spell as a whole
StringNumericLiteral(s, a, b) ==
  IF a >= b THEN Num(0)
  ELSE IF IsHex(s, a)
  THEN (IF b > a + 2 /\ HexEnd(s, a + 2) = b
        THEN Num(ToInt(s, a + 2, b, 16)) ELSE NaN)
  ELSE IF LiteralEnd(s, AfterSign(s, a)) = b
  THEN Unsigned(s, IsMinus(s, a), AfterSign(s, a))
  ELSE NaN

\* Number(s): the whole string, white space at both ends apart, must be one
\* numeric literal; the empty string is 0, anything else NaN
Number(s) ==
  IF s = Undefined THEN NaN
  ELSE StringNumericLiteral(s, SkipWS(s, 1), TrimEnd(s, Len(s)))

----------------------------------------------------------------------------
(* PatientForm.tsx: formSchema *)

\* lines 24-26: age is a string of at least one character whose Number is
\* not NaN and is greater than 0
AgeValid(age) ==
  /\ age # Undefined
  /\ Len(age) >= 1
  /\ ~isNaN(Number(age))
  /\ Gt(Number(age), Num(0))

----------------------------------------------------------------------------
(* thyroidModel.ts *)

LabOrder == <<"tsh", "t3", "t4", "thyroglobulin", "calcitonin">>

LabKeys == {LabOrder[i] : i \in 1..Len(LabOrder)}

REFERENCE_RANGES ==
  [tsh |-> [min |-> Dec(4, 1), max |-> Dec(40, 1), unit |-> "mIU/L"],
   t3 |-> [min |-> Num(80), max |-> Num(200), unit |-> "ng/dL"],
   t4 |-> [min |-> Dec(50, 1), max |-> Dec(120, 1), unit |-> "ug/dL"],
   thyroglobulin |-> [min |-> Num(3), max |-> Num(40), unit |-> "ng/mL"],
   calcitonin |-> [min |-> Num(0), max |-> Num(10), unit |-> "pg/mL"]]

\* String.prototype.toUpperCase on the five test keys
toUpperCase ==
  [tsh |-> "TSH", t3 |-> "T3", t4 |-> "T4",
   thyroglobulin |-> "THYROGLOBULIN", calcitonin |-> "CALCITONIN"]

\* mutant: the bounds of the range taken as out of range
OutOfRangeInclusive(numValue, range) ==
  ~Gt(numValue, range.min) \/ ~Lt(numValue, range.max)

\* line 65
OutOfRange(numValue, range) ==
  Lt(numValue, range.min) \/ Gt(numValue, range.max)

\* mutant: no isNaN test, and the range test written as a negation
isAbnormalNoNaNCheck(value, type) ==
  ~(~Lt(parseFloat(value), REFERENCE_RANGES[type].min)
    /\ ~Gt(parseFloat(value), REFERENCE_RANGES[type].max)
    /\ ~isNaN(parseFloat(value)))

isAbnormal(value, type) ==
  IF isNaN(parseFloat(value)) THEN FALSE
  ELSE OutOfRange(parseFloat(value), REFERENCE_RANGES[type])

\* line 73: the fields getLabResultDetails passes over
IsBlank(value) == ~Truthy(value) \/ TrimIsEmpty(value)

\* the template string of lines 80-85, kept as its parts: the upper-cased
\* key, the parsed value, the unit, the side and the range
DetailMessage(testKey, numValue, range) ==
  [test |-> toUpperCase[testKey],
   value |-> numValue,
   unit |-> range.unit,
   side |-> IF Lt(numValue, range.min) THEN "below" ELSE "above",
   min |-> range.min,
   max |-> range.max]

\* mutant: a blank field read as the value 0
LabEntryDetailsDefaultZero(key, value) ==
  IF isAbnormal(IF IsBlank(value) THEN <<"0">> ELSE value, key)
  THEN <<DetailMessage(key,
                       parseFloat(IF IsBlank(value) THEN <<"0">> ELSE value),
                       REFERENCE_RANGES[key])>>
  ELSE <<>>

\* the body of the forEach callback for one entry [key, value]
LabEntryDetails(key, value) ==
  IF IsBlank(value) THEN <<>>
  ELSE IF isAbnormal(value, key)
  THEN <<DetailMessage(key, parseFloat(value), REFERENCE_RANGES[key])>>
  ELSE <<>>

\* Object.entries(labResults).forEach over the entries i .. 5, in key order
RECURSIVE DetailsFrom(_, _)
DetailsFrom(labResults, i) ==
  IF i > Len(LabOrder) THEN <<>>
  ELSE LabEntryDetails(LabOrder[i], labResults[LabOrder[i]])
         \o DetailsFrom(labResults, i + 1)

getLabResultDetails(labResults) == DetailsFrom(labResults, 1)

\* mutant: the age test written as the negation of age <= 60, true of NaN
AgeOver60Negated(age) ==
  ~(Lt(parseInt(age), Num(60)) \/ parseInt(age) = Num(60))

\* lines 99-100: parseInt(data.personalInfo.age) > 60
AgeOver60(age) == Gt(parseInt(age), Num(60))

\* the ten checks of calculateRiskFactors, in the order of the code
FactorChecks(data) ==
  <<[holds |-> AgeOver60(data.personalInfo.age),
     label |-> "Age over 60"],
    [holds |-> data.medicalHistory.familyHistoryThyroid = "yes",
     label |-> "Family history of thyroid disease"],
    [holds |-> data.medicalHistory.radiationExposure = "yes",
     label |-> "Prior radiation exposure to neck/head"],
    [holds |-> data.medicalHistory.previousThyroidIssues = "yes",
     label |-> "Previous thyroid issues"],
    [holds |-> data.medicalHistory.smoking = "current",
     label |-> "Current smoker"],
    [holds |-> data.symptoms.neckSwelling = "yes",
     label |-> "Neck swelling or lump"],
    [holds |-> data.symptoms.difficultySwallowing = "yes",
     label |-> "Difficulty swallowing"],
    [holds |-> data.symptoms.voiceChanges = "yes",
     label |-> "Voice changes or hoarseness"],
    [holds |-> data.symptoms.neckPain = "yes",
     label |-> "Neck pain"],
    [holds |-> data.symptoms.swollenLymphNodes = "yes",
     label |-> "Swollen lymph nodes"]>>

\* the pushes of checks i .. 10 onto the array
RECURSIVE PushFrom(_, _)
PushFrom(checks, i) ==
  IF i > Len(checks) THEN <<>>
  ELSE (IF checks[i].holds THEN <<checks[i].label>> ELSE <<>>)
         \o PushFrom(checks, i + 1)

\* mutant: the array declared once, outside the function
SharedFactors == result.factors

\* const factors: string[] = [] (line 96): a fresh array on every call
NewFactors == <<>>

\* mutant: the symptom checks made before the age and history checks
calculateRiskFactorsSymptomsFirst(data) ==
  PushFrom(SubSeq(FactorChecks(data), 6, 10), 1)
    \o PushFrom(SubSeq(FactorChecks(data), 1, 5), 1)

calculateRiskFactors(data) == NewFactors \o PushFrom(FactorChecks(data), 1)

SevereLabel == "Significantly elevated calcitonin levels"

\* mutant: the threshold 20 included
hasCalcitoninElevationAt20(data) ==
  /\ Truthy(data.labResults.calcitonin)
  /\ isAbnormal(data.labResults.calcitonin, "calcitonin")
  /\ ~Lt(parseFloat(data.labResults.calcitonin), Num(20))

\* lines 168-170
hasCalcitoninElevation(data) ==
  /\ Truthy(data.labResults.calcitonin)
  /\ isAbnormal(data.labResults.calcitonin, "calcitonin")
  /\ Gt(parseFloat(data.labResults.calcitonin), Num(20))

\* mutant: 15 points once, whatever the number of abnormal values
baseScoreFlatLabBonus(nFactors, nDetails, severe) ==
  nFactors * 10
    + (IF nDetails > 0 THEN 15 ELSE 0)
    + (IF severe THEN 30 ELSE 0)

\* mutant: the severe indicator recorded as a factor without its 30 points
baseScoreNoSevereBonus(nFactors, nDetails, severe) ==
  nFactors * 10 + (IF nDetails > 0 THEN nDetails * 15 ELSE 0)

\* mutant: the severe bonus typed as 10
baseScoreSevere10(nFactors, nDetails, severe) ==
  nFactors * 10
    + (IF nDetails > 0 THEN nDetails * 15 ELSE 0)
    + (IF severe THEN 10 ELSE 0)

\* mutant: the severe bonus typed as 60
baseScoreSevere60(nFactors, nDetails, severe) ==
  nFactors * 10
    + (IF nDetails > 0 THEN nDetails * 15 ELSE 0)
    + (IF severe THEN 60 ELSE 0)

\* lines 157-175: baseScore is an integer, so Math.round leaves it as it is
baseScore(nFactors, nDetails, severe) ==
  nFactors * 10
    + (IF nDetails > 0 THEN nDetails * 15 ELSE 0)
    + (IF severe THEN 30 ELSE 0)

\* mutant: no cap
finalScoreNoCap(base) == base

\* mutant: the score wrapped at 100 instead of capped
finalScoreModulo(base) == base % 100

\* line 178
finalScore(base) == IF base < 100 THEN base ELSE 100

\* mutant: the comparisons of the display layer (above 60, above 30)
riskLevelDisplay(score) ==
  IF score > 60 THEN "high" ELSE IF score > 30 THEN "moderate" ELSE "low"

\* mutant: high from 60 on
riskLevelCut60(score) ==
  IF score < 30 THEN "low" ELSE IF score < 60 THEN "moderate" ELSE "high"

\* lines 181-188
riskLevel(score) ==
  IF score < 30 THEN "low" ELSE IF score < 70 THEN "moderate" ELSE "high"

\* mutant: one abnormal value alone not reported
hasAbnormalMoreThanOne(labResultDetails) == Len(labResultDetails) > 1

\* line 151
hasAbnormalLabResults(labResultDetails) == Len(labResultDetails) > 0

\* lines 172-175 and 190-198
PredictionResult(score, factors, severe, labResultDetails) ==
  [risk |-> riskLevel(score),
   score |-> score,
   factors |-> IF severe THEN Append(factors, SevereLabel) ELSE factors,
   labResultsAnalysis |->
     [abnormal |-> hasAbnormalLabResults(labResultDetails),
      details |-> labResultDetails]]

Scored(factors, severe, labResultDetails) ==
  PredictionResult(
    finalScore(baseScore(Len(factors), Len(labResultDetails), severe)),
    factors, severe, labResultDetails)

predictThyroidRisk(data) ==
  Scored(calculateRiskFactors(data), hasCalcitoninElevation(data),
         getLabResultDetails(data.labResults))

\* a TypeError inside the call: the reference range of a key that
\* REFERENCE_RANGES does not hold is undefined, and line 65 reads its min
Raises(data) ==
  \E key \in DOMAIN data.labResults :
     /\ key \notin DOMAIN REFERENCE_RANGES
     /\ ~IsBlank(data.labResults[key])
     /\ ~isNaN(parseFloat(data.labResults[key]))

----------------------------------------------------------------------------
(* The inputs: PredictionInput records *)

Blank == <<>>

NoLabs == [key \in LabKeys |-> Blank]

AllNo ==
  [personalInfo |-> [age |-> <<"4", "0">>, gender |-> "male"],
   medicalHistory |->
     [familyHistoryThyroid |-> "no", radiationExposure |-> "no",
      previousThyroidIssues |-> "no", smoking |-> "never"],
   symptoms |->
     [neckSwelling |-> "no", difficultySwallowing |-> "no",
      voiceChanges |-> "no", neckPain |-> "no", swollenLymphNodes |-> "no"],
   labResults |-> NoLabs]

\* three conditions hold: age, family history, neck swelling
ThreeFactors ==
  [AllNo EXCEPT !.personalInfo.age = <<"6", "5">>,
                !.personalInfo.gender = "female",
                !.medicalHistory.familyHistoryThyroid = "yes",
                !.symptoms.neckSwelling = "yes"]

\* seven conditions hold
SevenFactors ==
  [ThreeFactors EXCEPT !.medicalHistory.radiationExposure = "yes",
                       !.medicalHistory.smoking = "current",
                       !.symptoms.voiceChanges = "yes",
                       !.symptoms.neckPain = "yes"]

\* all ten conditions hold, the lab fields are absent
AllTen ==
  [SevenFactors EXCEPT !.medicalHistory.previousThyroidIssues = "yes",
                       !.symptoms.difficultySwallowing = "yes",
                       !.symptoms.swollenLymphNodes = "yes",
                       !.labResults = [key \in LabKeys |-> Undefined]]

CalcitoninOnly == [AllNo EXCEPT !.labResults.calcitonin = <<"2", "5">>]

AllLabsAbnormal ==
  [AllNo EXCEPT !.labResults =
     [tsh |-> <<"0", ".", "1">>, t3 |-> <<"2", "5", "0">>,
      t4 |-> <<"1", "3">>, thyroglobulin |-> <<"1">>,
      calcitonin |-> <<"3", "0">>]]

\* one condition holds, two values are abnormal, calcitonin is above 20
Mixed ==
  [CalcitoninOnly EXCEPT !.medicalHistory.smoking = "current",
                         !.labResults.tsh = <<"9">>]

Profiles ==
  {AllNo, ThreeFactors, SevenFactors, AllTen, AllLabsAbnormal, Mixed}

AgeValues ==
  {<<>>, <<"4", "0">>, <<"6", "0">>, <<"6", "1">>, <<"6", "0", ".", "5">>,
   <<"0", "x", "4", "1">>}

\* absent, empty, white space, not a number
NoValue == {Undefined, <<>>, <<" ", "\t">>, <<"a", "b", "c">>}

LabValues ==
  [tsh |-> NoValue \cup
     {<<".", "3", "9">>, <<"0", ".", "4">>, <<"2">>, <<"4", ".", "0">>,
      <<"4", ".", "1">>},
   t3 |-> NoValue \cup
     {<<"7", "9">>, <<"8", "0">>, <<"2", "0", "0">>, <<"2", "0", "1">>,
      <<"1", "e", "3">>},
   t4 |-> NoValue \cup
     {<<"4", ".", "9">>, <<"5">>, <<"1", "2">>, <<"1", "2", ".", "5">>,
      <<" ", "7">>},
   thyroglobulin |-> NoValue \cup
     {<<"2">>, <<"3">>, <<"4", "0">>, <<"4", "1">>, <<"9", "n", "g">>},
   calcitonin |-> NoValue \cup
     {<<"-", "1">>, <<"0">>, <<"1", "0">>, <<"1", "0", ".", "5">>,
      <<"2", "0">>, <<"2", "5">>, <<"2", "e", "1">>, InfinityChars}]

\* one field of the form set to one value: <<group, field, value>>
FieldValues ==
  {<<"personalInfo", "age", v>> : v \in AgeValues}
  \cup {<<"personalInfo", "gender", v>> : v \in {"male", "female"}}
  \cup {<<"medicalHistory", f, v>> :
          f \in {"familyHistoryThyroid", "radiationExposure",
                 "previousThyroidIssues"},
          v \in {"yes", "no"}}
  \cup {<<"medicalHistory", "smoking", v>> :
          v \in {"never", "former", "current"}}
  \cup {<<"symptoms", f, v>> :
          f \in {"neckSwelling", "difficultySwallowing", "voiceChanges",
                 "neckPain", "swollenLymphNodes"},
          v \in {"yes", "no"}}
  \cup UNION {{<<"labResults", key, v>> : v \in LabValues[key]} :
                key \in LabKeys}

SetField(data, fv) == [data EXCEPT ![fv[1]][fv[2]] = fv[3]]

\* the records that differ from a profile in at most n fields
RECURSIVE Within(_)
Within(n) ==
  IF n = 0 THEN Profiles
  ELSE LET prev == Within(n - 1)
       IN  prev \cup {SetField(data, fv) : data \in prev, fv \in FieldValues}

MaxDiff == 1

Inputs == Within(MaxDiff)

\* the input of the calls made between two calls with the same input
Between == {AllLabsAbnormal}

----------------------------------------------------------------------------
(* The calls *)

NoResult ==
  [risk |-> "none", score |-> 0, factors |-> <<>>,
   labResultsAnalysis |-> [abnormal |-> FALSE, details |-> <<>>]]

NoCall ==
  [called |-> FALSE, input |-> AllNo, output |-> NoResult, between |-> FALSE]

\* null
Null == [null |-> TRUE]

\* lines 64-91 of PatientForm.tsx (the names, which the scorer does not
\* read, are left out)
defaultValues == [AllNo EXCEPT !.personalInfo.age = <<>>]

\* the application as it is loaded: the form page with its default values,
\* nothing stored, no timer, no notification
AppLoaded ==
  /\ form = defaultValues
  /\ labAnalysis = Null
  /\ heap = <<>>
  /\ calls = 0
  /\ stored = <<>>
  /\ now = 0
  /\ timers = {}
  /\ page = "form"
  /\ routeId = <<>>
  /\ patient = Null
  /\ loading = TRUE
  /\ activeTab = "personalInfo"
  /\ patients = <<>>
  /\ toast = "none"

Init ==
  /\ input \in Inputs
  /\ result = NoResult
  /\ pc = "idle"
  /\ seen = NoCall
  /\ AppLoaded

\* a call of predictThyroidRisk with the current input; seen keeps the input
\* and the output of the first call, and whether a call with another input
\* followed it
Call ==
  /\ pc = "idle"
  /\ IF Raises(input)
     THEN /\ pc' = "raised"
          /\ UNCHANGED <<result, seen>>
     ELSE /\ pc' = "done"
          /\ result' = predictThyroidRisk(input)
          /\ seen' = IF seen.called
                     THEN [seen EXCEPT !.between = @ \/ input # seen.input]
                     ELSE [called |-> TRUE, input |-> input,
                           output |-> result', between |-> FALSE]
  /\ UNCHANGED input
  /\ UNCHANGED appVars

\* the caller takes another input, or the input of the first call again
NextInput ==
  /\ pc = "done"
  /\ input' \in Between \cup {seen.input}
  /\ pc' = "idle"
  /\ UNCHANGED <<result, seen>>
  /\ UNCHANGED appVars

Next == Call \/ NextInput

Spec == Init /\ [][Next]_vars

----------------------------------------------------------------------------
(* The application: PatientForm, Results and PatientHistory over the       *)
(* 'patients' item of localStorage, one handler or effect per action.  A   *)
(* page that is not mounted holds its initial state.                       *)

\* the last instant of the clock, which bounds the number of submissions
MaxTime == 2

\* the greatest identifier drawn
MaxId == 1

\* Math.floor(Math.random() * 10000) (line 101): an integer from 0 on
PatientIds == 0..MaxId

\* the addresses of the arrays of details that the form page can hold
Addresses == 1..2

\* two conditions hold, age and family history, and calcitonin is above 20:
\* score 65
SixtyFive ==
  [ThreeFactors EXCEPT !.symptoms.neckSwelling = "no",
                       !.labResults.calcitonin = <<"2", "5">>]

\* the contents of the form that the user types
FormInputs == {defaultValues, SixtyFive, SevenFactors}

\* Number.prototype.toString, and the template literal of line 122, of a
\* non-negative integer
RECURSIVE toString(_)
toString(n) ==
  IF n < 10 THEN <<Digits[n + 1]>>
  ELSE toString(n \div 10) \o <<Digits[(n % 10) + 1]>>

\* mutant: the array of details declared once, outside the function
SharedDetails(h) ==
  IF DOMAIN h = {} THEN 1 ELSE CHOOSE a \in DOMAIN h : TRUE

\* const details: string[] = [] (line 70 of thyroidModel.ts): an array that no
\* earlier call returned
NewDetails(h) == CHOOSE a \in Addresses : a \notin DOMAIN h

\* the heap h after a call of predictThyroidRisk that returns prediction
AfterCall(h, prediction) ==
  [a \in DOMAIN h \cup {NewDetails(h)} |->
     IF a = NewDetails(h) THEN prediction.labResultsAnalysis.details
     ELSE h[a]]

\* the arrays of h at the addresses in live: the others are garbage
Live(h, live) == [a \in live |-> h[a]]

\* mutant: every tier below high stored as low_risk
predictionResultHighOrLow(risk) ==
  IF risk = "high" THEN "high_risk" ELSE "low_risk"

\* line 112
predictionResultOf(risk) ==
  IF risk = "high" THEN "high_risk"
  ELSE IF risk = "moderate" THEN "moderate_risk" ELSE "low_risk"

\* lines 108-116: the record, as JSON.stringify writes it
newPatient(patientId, data, timestamp, prediction) ==
  [id |-> patientId,
   personalInfo |-> data.personalInfo,
   medicalHistory |-> data.medicalHistory,
   symptoms |-> data.symptoms,
   labResults |-> data.labResults,
   timestamp |-> timestamp,
   predictionResult |-> predictionResultOf(prediction.risk),
   predictionScore |-> prediction.score,
   riskFactors |-> prediction.factors,
   labAnalysis |-> prediction.labResultsAnalysis]

\* the values of the TabsTriggers (lines 198-201), in the order of the list
TabOrder == <<"personalInfo", "medicalHistory", "symptoms", "labResults">>

\* mutant: after the last tab comes the first
nextTabWraps(tab) ==
  IF tab = "personalInfo" THEN "medicalHistory"
  ELSE IF tab = "medicalHistory" THEN "symptoms"
  ELSE IF tab = "symptoms" THEN "labResults"
  ELSE "personalInfo"

\* lines 126-130: the tab that nextTab sets when activeTab is tab
nextTab(tab) ==
  IF tab = "personalInfo" THEN "medicalHistory"
  ELSE IF tab = "medicalHistory" THEN "symptoms"
  ELSE IF tab = "symptoms" THEN "labResults"
  ELSE tab

\* lines 132-136: the tab that prevTab sets when activeTab is tab
prevTab(tab) ==
  IF tab = "labResults" THEN "symptoms"
  ELSE IF tab = "symptoms" THEN "medicalHistory"
  ELSE IF tab = "medicalHistory" THEN "personalInfo"
  ELSE tab

\* a handler of the form page that changes the tab only
SetActiveTab(tab) ==
  /\ page = "form"
  /\ activeTab' = tab
  /\ calls' = 0
  /\ UNCHANGED <<form, labAnalysis, heap, stored, now, timers, page, routeId,
                 patient, loading, patients, toast>>
  /\ UNCHANGED scorerVars

\* the Next button (lines 700-703), shown on every tab but the last
ClickNext ==
  /\ activeTab # "labResults"
  /\ SetActiveTab(nextTab(activeTab))

\* the Previous button (lines 691-698), disabled on the first tab
ClickPrevious ==
  /\ activeTab # "personalInfo"
  /\ SetActiveTab(prevTab(activeTab))

\* a click on a TabsTrigger: onValueChange={setActiveTab} (line 194), called
\* with the value of a tab that is not the active one
ClickTab ==
  \E i \in 1..Len(TabOrder) :
     /\ TabOrder[i] # activeTab
     /\ SetActiveTab(TabOrder[i])

\* the user fills in the form
EditForm ==
  /\ page = "form"
  /\ form' \in FormInputs \ {form}
  /\ calls' = 0
  /\ UNCHANGED <<labAnalysis, heap, stored, now, timers, page, routeId,
                 patient, loading, patients, toast, activeTab>>
  /\ UNCHANGED scorerVars

\* mutant: the early return of lines 145-149 never taken
hasValuesAlways(labResults) == TRUE

\* lines 141-143: some lab value is neither empty nor white space
hasValues(labResults) ==
  \E key \in LabKeys :
     Truthy(labResults[key]) /\ ~TrimIsEmpty(labResults[key])

\* lines 138-173
analyzeLabResults ==
  LET prediction == predictThyroidRisk(form) IN
  /\ page = "form"
  /\ IF ~hasValues(form.labResults)
     THEN /\ calls' = 0
          /\ labAnalysis' = Null
          /\ heap' = <<>>
          /\ toast' = "No lab values entered to analyze"
     ELSE /\ calls' = 1
          /\ labAnalysis' =
               [abnormal |-> prediction.labResultsAnalysis.abnormal,
                details |-> NewDetails(heap)]
          /\ heap' = Live(AfterCall(heap, prediction), {NewDetails(heap)})
          /\ toast' =
               IF prediction.labResultsAnalysis.abnormal
               THEN "Abnormal lab results detected"
               ELSE "Lab results within normal ranges"
  /\ UNCHANGED <<form, stored, now, timers, page, routeId, patient, loading,
                 patients, activeTab>>
  /\ UNCHANGED scorerVars

\* mutant: the record put at the head of the list
unshift(list, item) == <<item>> \o list

\* patients.push(newPatient) (line 118)
push(list, item) == Append(list, item)

\* lines 98-124, called by handleSubmit when the form is valid; new Date()
\* (line 111) reads the clock, which has moved on at the next submission;
\* written is false when localStorage.setItem throws, which ends the handler
\* before the timer is set
onSubmit(patientId, written) ==
  LET prediction == predictThyroidRisk(form) IN
  /\ page = "form"
  /\ now < MaxTime
  /\ now' = now + 1
  /\ AgeValid(form.personalInfo.age)
  /\ calls' = 1
  /\ heap' = Live(AfterCall(heap, prediction), DOMAIN heap)
  /\ toast' = "Patient data submitted successfully"
  /\ IF written
     THEN /\ stored' = push(stored,
                            newPatient(patientId, form, now, prediction))
          /\ timers' = timers \cup {patientId}
     ELSE UNCHANGED <<stored, timers>>
  /\ UNCHANGED <<form, labAnalysis, page, routeId, patient, loading,
                 patients, activeTab>>
  /\ UNCHANGED scorerVars

\* patients.find((p) => p.id.toString() === id) (lines 56-57 of the Results
\* page): the first record with the identifier, null when there is none
find(list, id) ==
  IF \E i \in 1..Len(list) : toString(list[i].id) = id
  THEN list[CHOOSE i \in 1..Len(list) :
              /\ toString(list[i].id) = id
              /\ \A j \in 1..(i - 1) : toString(list[j].id) # id]
  ELSE Null

\* the Results page at the route /results/<id>: fetchPatient runs when the
\* page is mounted and when the id of the route changes; it sets the patient
\* only when it finds one, and loading is false when it ends
ShowResults(id) ==
  /\ page' = "results"
  /\ routeId' = id
  /\ loading' = FALSE
  /\ activeTab' = "personalInfo"
  /\ calls' = 0
  /\ IF page = "results" /\ routeId = id
     THEN UNCHANGED <<patient, toast>>
     ELSE /\ patient' =
               IF find(stored, id) # Null THEN find(stored, id)
               ELSE IF page = "results" THEN patient ELSE Null
          /\ toast' =
               IF find(stored, id) # Null THEN toast
               ELSE "Patient not found"
  /\ form' = defaultValues
  /\ labAnalysis' = Null
  /\ heap' = <<>>
  /\ patients' = <<>>
  /\ UNCHANGED <<stored, now>>

\* the timer of line 121 fires: navigate(`/results/${patientId}`)
TimerFires ==
  \E patientId \in timers :
     /\ timers' = timers \ {patientId}
     /\ ShowResults(toString(patientId))
     /\ UNCHANGED scorerVars

\* lines 88-122 of the Results page: the nine checks of the riskFactors memo,
\* in the order of the code
shownFactorChecks(record) ==
  <<[holds |-> record.medicalHistory.familyHistoryThyroid = "yes",
     label |-> "Family history of thyroid disease"],
    [holds |-> record.medicalHistory.radiationExposure = "yes",
     label |-> "Prior radiation exposure to neck/head"],
    [holds |-> record.medicalHistory.previousThyroidIssues = "yes",
     label |-> "Previous thyroid issues"],
    [holds |-> record.medicalHistory.smoking = "current",
     label |-> "Current smoker"],
    [holds |-> record.symptoms.neckSwelling = "yes",
     label |-> "Neck swelling or lump"],
    [holds |-> record.symptoms.difficultySwallowing = "yes",
     label |-> "Difficulty swallowing"],
    [holds |-> record.symptoms.voiceChanges = "yes",
     label |-> "Voice changes or hoarseness"],
    [holds |-> record.symptoms.neckPain = "yes",
     label |-> "Neck pain"],
    [holds |-> record.symptoms.swollenLymphNodes = "yes",
     label |-> "Swollen lymph nodes"]>>

\* lines 83-125 of the Results page: the risk factors shown for the patient,
\* none when there is no patient
riskFactors(record) ==
  IF record = Null THEN <<>>
  ELSE PushFrom(shownFactorChecks(record), 1)

\* lines 140-170 of the Results page: what the page renders
resultsView ==
  IF loading THEN "Loading patient results..."
  ELSE IF patient = Null THEN "Patient Not Found"
  ELSE "patient"

\* mutant: the level shown with the cut-offs of the scorer
displayedRiskLevelAsScored(predictionScore) ==
  IF ~Lt(parseFloat(toString(predictionScore)), Num(70)) THEN "High"
  ELSE IF ~Lt(parseFloat(toString(predictionScore)), Num(30)) THEN "Moderate"
  ELSE "Low"

\* line 172 of the Results page: the level shown for the stored score, which
\* parseFloat reads as a string
displayedRiskLevel(predictionScore) ==
  IF Gt(parseFloat(toString(predictionScore)), Num(60)) THEN "High"
  ELSE IF Gt(parseFloat(toString(predictionScore)), Num(30)) THEN "Moderate"
  ELSE "Low"

\* lines 158-167 of the history page: the badge of a row
getRiskBadge(score) ==
  IF Gt(parseFloat(toString(score)), Num(60)) THEN "High Risk"
  ELSE IF Gt(parseFloat(toString(score)), Num(30)) THEN "Moderate Risk"
  ELSE "Low Risk"

\* the link to /results/<id> of a row of the history table
ViewResults ==
  /\ page = "history"
  /\ \E i \in 1..Len(patients) : ShowResults(toString(patients[i].id))
  /\ UNCHANGED timers
  /\ UNCHANGED scorerVars

\* the link to /patient-form: the form page is mounted
OpenForm ==
  /\ page # "form"
  /\ page' = "form"
  /\ form' = defaultValues
  /\ labAnalysis' = Null
  /\ heap' = <<>>
  /\ calls' = 0
  /\ routeId' = <<>>
  /\ patient' = Null
  /\ loading' = TRUE
  /\ activeTab' = "personalInfo"
  /\ patients' = <<>>
  /\ UNCHANGED <<stored, now, timers, toast>>
  /\ UNCHANGED scorerVars

\* the link to /patient-history: the page is mounted and its effect
\* (lines 77-87) loads the stored list
OpenHistory ==
  /\ page # "history"
  /\ page' = "history"
  /\ patients' = stored
  /\ form' = defaultValues
  /\ labAnalysis' = Null
  /\ heap' = <<>>
  /\ calls' = 0
  /\ routeId' = <<>>
  /\ patient' = Null
  /\ loading' = TRUE
  /\ activeTab' = "personalInfo"
  /\ UNCHANGED <<stored, now, timers, toast>>
  /\ UNCHANGED scorerVars

\* patients.filter((patient) => patient.id !== id) (line 137)
RECURSIVE filter(_, _)
filter(list, id) ==
  IF list = <<>> THEN <<>>
  ELSE (IF Head(list).id # id THEN <<Head(list)>> ELSE <<>>)
         \o filter(Tail(list), id)

\* mutant: setPatients called before localStorage.setItem
handleDeletePatientStateFirst(i, written) ==
  /\ page = "history"
  /\ i \in 1..Len(patients)
  /\ calls' = 0
  /\ patients' = filter(patients, patients[i].id)
  /\ IF written
     THEN /\ stored' = filter(patients, patients[i].id)
          /\ toast' = "Patient record deleted successfully"
     ELSE /\ toast' = "Failed to delete patient record"
          /\ UNCHANGED stored
  /\ UNCHANGED <<form, labAnalysis, heap, now, timers, page, routeId,
                 patient, loading, activeTab>>
  /\ UNCHANGED scorerVars

\* lines 135-145, for the record of row i; written is false when
\* localStorage.setItem throws
handleDeletePatient(i, written) ==
  /\ page = "history"
  /\ i \in 1..Len(patients)
  /\ calls' = 0
  /\ IF written
     THEN /\ stored' = filter(patients, patients[i].id)
          /\ patients' = filter(patients, patients[i].id)
          /\ toast' = "Patient record deleted successfully"
     ELSE /\ toast' = "Failed to delete patient record"
          /\ UNCHANGED <<stored, patients>>
  /\ UNCHANGED <<form, labAnalysis, heap, now, timers, page, routeId,
                 patient, loading, activeTab>>
  /\ UNCHANGED scorerVars

\* lines 147-156
handleDeleteAllPatients(written) ==
  /\ page = "history"
  /\ calls' = 0
  /\ IF written
     THEN /\ stored' = <<>>
          /\ patients' = <<>>
          /\ toast' = "All patient records deleted successfully"
     ELSE /\ toast' = "Failed to delete all patient records"
          /\ UNCHANGED <<stored, patients>>
  /\ UNCHANGED <<form, labAnalysis, heap, now, timers, page, routeId,
                 patient, loading, activeTab>>
  /\ UNCHANGED scorerVars

Submit ==
  \E patientId \in PatientIds, written \in BOOLEAN :
     onSubmit(patientId, written)

DeletePatient ==
  \E i \in 1..MaxTime, written \in BOOLEAN : handleDeletePatient(i, written)

DeleteAllPatients == \E written \in BOOLEAN : handleDeleteAllPatients(written)

InitApp ==
  /\ input = AllNo
  /\ result = NoResult
  /\ pc = "idle"
  /\ seen = NoCall
  /\ AppLoaded

NextApp ==
  \/ EditForm
  \/ analyzeLabResults
  \/ Submit
  \/ TimerFires
  \/ ViewResults
  \/ OpenForm
  \/ OpenHistory
  \/ DeletePatient
  \/ DeleteAllPatients

\* the application, whose handlers do not read activeTab: the tab stays the
\* first one
SpecApp == InitApp /\ [][NextApp]_vars

\* the Analyze Lab Values button (lines 566-573), which is in the content of
\* the Lab Results tab
ClickAnalyze ==
  /\ activeTab = "labResults"
  /\ analyzeLabResults

\* the form page while it is mounted, with its tabs
NextForm ==
  \/ EditForm
  \/ ClickNext
  \/ ClickPrevious
  \/ ClickTab
  \/ ClickAnalyze
  \/ Submit

SpecForm == InitApp /\ [][NextForm]_vars

----------------------------------------------------------------------------
(* The claims about predictThyroidRisk.  Each is stated on the result of  *)
(* a call (pc = "done") from the input of the call, with the conditions   *)
(* and the reference ranges written out as the specification gives them.  *)

Range(seq) == {seq[i] : i \in 1..Len(seq)}

Min(a, b) == IF a < b THEN a ELSE b

\* the ten base conditions and their labels, in the order of the
\* specification
BaseLabels ==
  <<"Age over 60", "Family history of thyroid disease",
    "Prior radiation exposure to neck/head", "Previous thyroid issues",
    "Current smoker", "Neck swelling or lump", "Difficulty swallowing",
    "Voice changes or hoarseness", "Neck pain", "Swollen lymph nodes">>

BaseConditions(data) ==
  <<Gt(parseInt(data.personalInfo.age), Num(60)),
    data.medicalHistory.familyHistoryThyroid = "yes",
    data.medicalHistory.radiationExposure = "yes",
    data.medicalHistory.previousThyroidIssues = "yes",
    data.medicalHistory.smoking = "current",
    data.symptoms.neckSwelling = "yes",
    data.symptoms.difficultySwallowing = "yes",
    data.symptoms.voiceChanges = "yes",
    data.symptoms.neckPain = "yes",
    data.symptoms.swollenLymphNodes = "yes">>

\* the place of a base label in the fixed order
LabelIndex(label) == CHOOSE i \in 1..10 : BaseLabels[i] = label

\* F: the number of base conditions that hold
CountHolding(data) ==
  LET conditions == BaseConditions(data)
  IN  Cardinality({i \in 1..10 : conditions[i]})

\* a lab value that is supplied: neither absent, nor empty, nor white space
Supplied(value) ==
  /\ value # Undefined
  /\ \E i \in 1..Len(value) : value[i] \notin WhiteSpace

\* the reference ranges of the specification, in tenths
RangeTenths ==
  [tsh |-> <<4, 40>>, t3 |-> <<800, 2000>>, t4 |-> <<50, 120>>,
   thyroglobulin |-> <<30, 400>>, calcitonin |-> <<0, 100>>]

BelowMin(value, key) == Lt(parseFloat(value), Dec(RangeTenths[key][1], 1))

AboveMax(value, key) == Gt(parseFloat(value), Dec(RangeTenths[key][2], 1))

\* the entries of details that are about the test of a key
EntriesFor(details, key) ==
  {i \in 1..Len(details) : details[i].test = toUpperCase[key]}

\* S: calcitonin supplied, a number, and above 20
SevereHolds(data) ==
  /\ Supplied(data.labResults.calcitonin)
  /\ ~isNaN(parseFloat(data.labResults.calcitonin))
  /\ Gt(parseFloat(data.labResults.calcitonin), Num(20))

\* the input with one lab field not supplied at all
WithoutLab(data, key) == [data EXCEPT !.labResults[key] = Undefined]

\* C1: the returned score is an integer with 0 <= score <= 100
C1_ScoreInRange == pc = "done" => result.score \in 0..100

\* a call whose uncapped sum is above 100: five abnormal values, one severe
C1_Witness ==
  /\ pc = "done"
  /\ Len(result.labResultsAnalysis.details) = 5
  /\ SevereLabel \in Range(result.factors)
  /\ result.score = 100

\* C2: the tier is low iff score < 30, moderate iff 30 <= score < 70, high
\* iff score >= 70
C2_TierFromScore ==
  pc = "done" =>
    /\ result.risk \in {"low", "moderate", "high"}
    /\ result.risk = "low" <=> result.score < 30
    /\ result.risk = "moderate" <=> (30 <= result.score /\ result.score < 70)
    /\ result.risk = "high" <=> result.score >= 70

\* a call that scored exactly 70
C2_Witness ==
  /\ pc = "done"
  /\ result.score = 70
  /\ result.risk = "high"

\* C3: score = min(100, 10 * F + 15 * A + 30 * S)
C3_ScoreFormula ==
  pc = "done" =>
    result.score =
      Min(100, 10 * CountHolding(input)
                 + 15 * Len(result.labResultsAnalysis.details)
                 + (IF SevereHolds(input) THEN 30 ELSE 0))

\* all three terms contribute, two abnormal values or more, below the cap
C3_Witness ==
  /\ pc = "done"
  /\ CountHolding(input) > 0
  /\ Len(result.labResultsAnalysis.details) >= 2
  /\ SevereHolds(input)
  /\ result.score < 100

\* C4: labResultsAnalysis.abnormal is true iff details is non-empty
C4_AbnormalIffDetails ==
  pc = "done" =>
    (result.labResultsAnalysis.abnormal
       <=> result.labResultsAnalysis.details # <<>>)

\* one abnormal value
C4_Witness ==
  /\ pc = "done"
  /\ result.labResultsAnalysis.abnormal
  /\ Len(result.labResultsAnalysis.details) = 1

\* C5: a supplied lab field whose value is a number has exactly one entry in
\* details iff the value is strictly below the minimum or strictly above the
\* maximum of its range, and no entry otherwise; the entry says below iff the
\* value is under the minimum and above otherwise
C5_EntryIffOutOfRange ==
  pc = "done" =>
    \A key \in LabKeys :
      LET value == input.labResults[key]
          entries == EntriesFor(result.labResultsAnalysis.details, key)
      IN  (Supplied(value) /\ ~isNaN(parseFloat(value))) =>
            /\ Cardinality(entries) =
                 (IF BelowMin(value, key) \/ AboveMax(value, key)
                  THEN 1 ELSE 0)
            /\ \A i \in entries :
                 /\ result.labResultsAnalysis.details[i].side
                      = (IF BelowMin(value, key) THEN "below" ELSE "above")
                 /\ result.labResultsAnalysis.details[i].value
                      = parseFloat(value)

\* tsh equal to its minimum 0.4 has no entry, next to one value reported
\* below its range and three reported above
C5_Witness ==
  /\ pc = "done"
  /\ input.labResults.tsh = <<"0", ".", "4">>
  /\ EntriesFor(result.labResultsAnalysis.details, "tsh") = {}
  /\ Len(result.labResultsAnalysis.details) = 4
  /\ \E i, j \in 1..4 :
       /\ result.labResultsAnalysis.details[i].side = "below"
       /\ result.labResultsAnalysis.details[j].side = "above"

\* C6: the severe indicator is applied (30 points, the label appended) iff
\* calcitonin is supplied, is a number and is above 20; a value in (10, 20]
\* and a negative value have an entry in details and no severe bonus
C6_SevereIffAbove20 ==
  pc = "done" =>
    LET value == input.labResults.calcitonin
        entries == EntriesFor(result.labResultsAnalysis.details, "calcitonin")
        others == 10 * CountHolding(input)
                    + 15 * Len(result.labResultsAnalysis.details)
    IN  /\ SevereLabel \in Range(result.factors) <=> SevereHolds(input)
        /\ SevereHolds(input) => result.score = Min(100, others + 30)
        /\ ~SevereHolds(input) => result.score = Min(100, others)
        /\ (/\ Supplied(value)
            /\ Gt(parseFloat(value), Num(10))
            /\ ~Gt(parseFloat(value), Num(20)))
             => entries # {} /\ SevereLabel \notin Range(result.factors)
        /\ (Supplied(value) /\ Lt(parseFloat(value), Num(0)))
             => entries # {} /\ SevereLabel \notin Range(result.factors)

\* calcitonin exactly 20: abnormal, not severe
C6_Witness ==
  /\ pc = "done"
  /\ parseFloat(input.labResults.calcitonin) = Num(20)
  /\ EntriesFor(result.labResultsAnalysis.details, "calcitonin") # {}
  /\ SevereLabel \notin Range(result.factors)
  /\ result.score = 15

\* C7: factors holds the label of each base condition iff the condition
\* holds, each at most once, in the fixed order, and the severe label, when
\* present, is the last element
C7_FactorsInOrder ==
  pc = "done" =>
    LET f == result.factors
    IN  /\ Range(f) \subseteq Range(BaseLabels) \cup {SevereLabel}
        /\ \A i \in 1..10 :
             Cardinality({p \in 1..Len(f) : f[p] = BaseLabels[i]})
               = (IF BaseConditions(input)[i] THEN 1 ELSE 0)
        /\ \A p \in 1..(Len(f) - 1) :
             /\ f[p] # SevereLabel
             /\ f[p + 1] # SevereLabel => LabelIndex(f[p]) < LabelIndex(f[p + 1])

\* the ten conditions hold and calcitonin is above 20: eleven factors
C7_Witness ==
  /\ pc = "done"
  /\ Len(result.factors) = 11
  /\ result.factors[11] = SevereLabel

\* C8: the call does not raise, and a lab field whose value is not a number
\* has no entry in details, adds nothing to the score and does not trigger
\* the severe indicator: the result is the one of the other fields alone
C8_UnparseableIgnored ==
  /\ pc # "raised"
  /\ pc = "done" =>
       \A key \in LabKeys :
         LET value == input.labResults[key]
         IN  (Supplied(value) /\ isNaN(parseFloat(value))) =>
               /\ EntriesFor(result.labResultsAnalysis.details, key) = {}
               /\ result.score =
                    Min(100, 10 * CountHolding(input)
                               + 15 * Len(result.labResultsAnalysis.details)
                               + (IF SevereHolds(input) THEN 30 ELSE 0))
               /\ (key = "calcitonin"
                     => SevereLabel \notin Range(result.factors))
               /\ result = predictThyroidRisk(WithoutLab(input, key))

\* tsh is "abc" and the four other values are reported
C8_Witness ==
  /\ pc = "done"
  /\ input.labResults.tsh = <<"a", "b", "c">>
  /\ Len(result.labResultsAnalysis.details) = 4
  /\ result.score = 90

\* C9: a lab field that is absent, empty or white space has no entry in
\* details, adds nothing to the score and does not trigger the severe
\* indicator: the result is the one of the input without the field
C9_BlankSkipped ==
  pc = "done" =>
    \A key \in LabKeys :
      LET value == input.labResults[key]
      IN  ~Supplied(value) =>
            /\ EntriesFor(result.labResultsAnalysis.details, key) = {}
            /\ result.score =
                 Min(100, 10 * CountHolding(input)
                            + 15 * Len(result.labResultsAnalysis.details)
                            + (IF SevereHolds(input) THEN 30 ELSE 0))
            /\ (key = "calcitonin"
                  => SevereLabel \notin Range(result.factors))
            /\ result = predictThyroidRisk(WithoutLab(input, key))

\* calcitonin is white space and the four other values are reported
C9_Witness ==
  /\ pc = "done"
  /\ input.labResults.calcitonin = <<" ", "\t">>
  /\ Len(result.labResultsAnalysis.details) = 4
  /\ result.score = 60

ConditionValues == {fv \in FieldValues : fv[1] # "labResults"}

\* the second input of a pair that differs from data, where k base
\* conditions hold, in one field only, by which one base condition more holds
RaisesOneCondition(data, k, fv) ==
  /\ data[fv[1]][fv[2]] # fv[3]
  /\ CountHolding(SetField(data, fv)) = k + 1

\* C11: of two inputs that differ only in one base condition, false in the
\* first and true in the second, the second scores at least as much (stated
\* on the first call of a behaviour: later calls repeat its inputs)
C11_Monotone ==
  (pc = "done" /\ ~seen.between) =>
    LET k == CountHolding(input)
    IN  \A fv \in ConditionValues :
          RaisesOneCondition(input, k, fv) =>
            predictThyroidRisk(SetField(input, fv)).score >= result.score

\* a call that scored 90 and an input with one condition more that scores
\* 100, the cap
C11_Witness ==
  /\ pc = "done"
  /\ ~seen.between
  /\ result.score = 90
  /\ \E fv \in ConditionValues :
       /\ RaisesOneCondition(input, CountHolding(input), fv)
       /\ predictThyroidRisk(SetField(input, fv)).score = 100

NoBaseCondition(data) == CountHolding(data) = 0

NoLabSupplied(data) == \A key \in LabKeys : ~Supplied(data.labResults[key])

OnlyCalcitonin(data) ==
  \A key \in LabKeys :
    Supplied(data.labResults[key]) <=> key = "calcitonin"

\* C12: no base condition and no lab value supplied: score 0, tier low, no
\* factor, labResultsAnalysis {abnormal: false, details: []}
C12_NothingGivesZero ==
  (pc = "done" /\ NoBaseCondition(input) /\ NoLabSupplied(input)) =>
    result = [risk |-> "low", score |-> 0, factors |-> <<>>,
              labResultsAnalysis |-> [abnormal |-> FALSE, details |-> <<>>]]

\* such a call, with an input that is not the all-no profile itself
C12_Witness ==
  /\ pc = "done"
  /\ NoBaseCondition(input)
  /\ NoLabSupplied(input)
  /\ input # AllNo
  /\ result.score = 0
  /\ result.risk = "low"

\* C13: no lab value supplied and exactly k base conditions: score 10 * k,
\* tier low for k <= 2, moderate for 3 <= k <= 6, high for k >= 7
C13_FactorsOnly ==
  (pc = "done" /\ NoLabSupplied(input)) =>
    LET k == CountHolding(input)
    IN  /\ result.score = 10 * k
        /\ result.risk = (IF k <= 2 THEN "low"
                          ELSE IF k <= 6 THEN "moderate" ELSE "high")

\* seven conditions alone: score 70, tier high
C13_Witness ==
  /\ pc = "done"
  /\ NoLabSupplied(input)
  /\ CountHolding(input) = 7
  /\ result.score = 70
  /\ result.risk = "high"

\* C14: no base condition and calcitonin above 20 as the only lab value:
\* one entry in details (calcitonin, above), score 45, tier moderate, and
\* the severe label as the only factor
C14_CalcitoninAlone ==
  (/\ pc = "done"
   /\ NoBaseCondition(input)
   /\ OnlyCalcitonin(input)
   /\ Gt(parseFloat(input.labResults.calcitonin), Num(20))) =>
    /\ Len(result.labResultsAnalysis.details) = 1
    /\ result.labResultsAnalysis.details[1].test = "CALCITONIN"
    /\ result.labResultsAnalysis.details[1].side = "above"
    /\ result.score = 45
    /\ result.risk = "moderate"
    /\ result.factors = <<SevereLabel>>

\* calcitonin "25" alone
C14_Witness ==
  /\ pc = "done"
  /\ NoBaseCondition(input)
  /\ OnlyCalcitonin(input)
  /\ input.labResults.calcitonin = <<"2", "5">>
  /\ result.score = 45

\* C15 as stated: with no base condition and calcitonin as the only lab
\* value, a value that is extreme enough gives tier high; Infinity is
\* beyond every finite threshold
C15_Original ==
  (/\ pc = "done"
   /\ NoBaseCondition(input)
   /\ OnlyCalcitonin(input)
   /\ parseFloat(input.labResults.calcitonin) = Infinity) =>
    result.risk = "high"

\* C15 (amended): with no base condition and calcitonin as the only lab value,
\* the score is at most 45 and the tier is never high, whatever the value
C15_CalcitoninAloneNotHigh ==
  (pc = "done" /\ NoBaseCondition(input) /\ OnlyCalcitonin(input)) =>
    /\ result.score <= 45
    /\ result.risk # "high"

\* calcitonin "Infinity" alone: score 45, tier moderate
C15_Witness ==
  /\ pc = "done"
  /\ NoBaseCondition(input)
  /\ OnlyCalcitonin(input)
  /\ parseFloat(input.labResults.calcitonin) = Infinity
  /\ result.score = 45
  /\ result.risk = "moderate"

\* C16: for every age string the form accepts, "Age over 60" is among the
\* factors exactly when the numeric age is greater than 60
C16_AgeFactorIffOver60 ==
  (pc = "done" /\ AgeValid(input.personalInfo.age)) =>
    (("Age over 60" \in Range(result.factors))
       <=> Gt(Number(input.personalInfo.age), Num(60)))

----------------------------------------------------------------------------
(* The claims about the application, on the steps and the states of        *)
(* SpecApp.                                                                *)

\* C17: a step in which predictThyroidRisk is called leaves the contents of
\* the form, which is its input, and every stored record as they were, and
\* changes no array of details that an earlier call returned and that is
\* still held
C17_NoSideEffects ==
  [][calls' = 1 =>
       /\ form' = form
       /\ \A i \in 1..Len(stored) :
             i <= Len(stored') /\ stored'[i] = stored[i]
       /\ \A a \in DOMAIN heap :
             a \in DOMAIN heap' => heap'[a] = heap[a]]_vars

\* a submission, after an analysis whose details the form page still holds:
\* the call of the submission returned other details, an earlier record is
\* stored
C17_Witness ==
  /\ calls = 1
  /\ toast = "Patient data submitted successfully"
  /\ labAnalysis # Null
  /\ heap[labAnalysis.details] # <<>>
  /\ Len(stored) = 2
  /\ stored[2].labAnalysis.details # heap[labAnalysis.details]

C19_DistinctIds ==
  /\ \A i, j \in 1..Len(stored) :
        i # j => stored[i].id # stored[j].id
  /\ \A i \in 1..Len(stored) :
        find(stored, toString(stored[i].id)) = stored[i]

\* list without its element i
RemoveAt(list, i) == SubSeq(list, 1, i - 1) \o SubSeq(list, i + 1, Len(list))

\* C20: a delete of row i of the history table that is written removes the
\* record i of the stored list and no other, and leaves the others in their
\* order; a clear-all that is written leaves the stored list empty
C20_DeleteRemovesOne ==
  [][/\ \A i \in 1..Len(patients) :
          handleDeletePatient(i, TRUE) => stored' = RemoveAt(stored, i)
     /\ handleDeleteAllPatients(TRUE) => stored' = <<>>]_vars

\* the input of the scorer that a stored record holds
InputOf(record) ==
  [personalInfo |-> record.personalInfo,
   medicalHistory |-> record.medicalHistory,
   symptoms |-> record.symptoms,
   labResults |-> record.labResults]

\* the stored tier of a score, with the thresholds 30 and 70
StoredTier(score) ==
  IF score >= 70 THEN "high_risk"
  ELSE IF score >= 30 THEN "moderate_risk" ELSE "low_risk"

\* C21: every stored record agrees with the scorer applied to the inputs the
\* record holds: same score, the tier of that score, same factors, same lab
\* analysis
C21_RecordsConsistent ==
  \A i \in 1..Len(stored) :
     LET prediction == predictThyroidRisk(InputOf(stored[i]))
     IN  /\ stored[i].predictionScore = prediction.score
         /\ stored[i].predictionResult = StoredTier(prediction.score)
         /\ stored[i].riskFactors = prediction.factors
         /\ stored[i].labAnalysis = prediction.labResultsAnalysis

\* a record of tier moderate that a delete of another record has left
C21_Witness ==
  /\ toast = "Patient record deleted successfully"
  /\ Len(stored) = 1
  /\ stored[1].predictionResult = "moderate_risk"
  /\ stored[1].riskFactors # <<>>
  /\ stored[1].labAnalysis.abnormal

\* the level that the FAQ of the application gives for a score: low below
\* 30, moderate from 30 to 60, high above 60
StatedLevel(score) ==
  IF score < 30 THEN "Low" ELSE IF score <= 60 THEN "Moderate" ELSE "High"

\* C22: for the score that a call returns, and that a record stores, the
\* Results page and the history table show Low below 30, Moderate from 30 to
\* 60, High above 60
C22_DisplayedLevel ==
  pc = "done" =>
    /\ displayedRiskLevel(result.score) = StatedLevel(result.score)
    /\ getRiskBadge(result.score)
         = StatedLevel(result.score) \o " Risk"

\* the stored tier that a displayed level stands for
TierOfLevel(level) ==
  IF level = "High" THEN "high_risk"
  ELSE IF level = "Moderate" THEN "moderate_risk" ELSE "low_risk"

\* the level that the Results page shows for a record differs from the tier
\* that the record stores
LevelDiffers(record) ==
  TierOfLevel(displayedRiskLevel(record.predictionScore))
    # record.predictionResult

\* C23: the display cuts at 30 and 60 where the scorer cuts at 30 and 70: the
\* level shown for a stored record differs from its stored tier exactly when
\* its score is 30 or lies above 60 and below 70, the badge of the history
\* table is that of the same level, and such a record is reached
\* (C23_Witness)
C23_DisplayDiffers ==
  \A i \in 1..Len(stored) :
     /\ LevelDiffers(stored[i])
          <=> \/ stored[i].predictionScore = 30
              \/ /\ stored[i].predictionScore > 60
                 /\ stored[i].predictionScore < 70
     /\ getRiskBadge(stored[i].predictionScore)
          = displayedRiskLevel(stored[i].predictionScore) \o " Risk"

\* the Results page shows a record of score 65, stored as moderate_risk, with
\* the level High, and the history table would show the High Risk badge
C23_Witness ==
  /\ page = "results"
  /\ patient # Null
  /\ patient.predictionScore = 65
  /\ patient.predictionResult = "moderate_risk"
  /\ displayedRiskLevel(patient.predictionScore) = "High"
  /\ getRiskBadge(patient.predictionScore) = "High Risk"
  /\ \E i \in 1..Len(stored) : stored[i] = patient

\* C24: for every stored record, the risk factors that the Results page shows
\* are the factors that the scorer produced for it, in the same order
C24_ShownFactorsAsScored ==
  \A i \in 1..Len(stored) :
     riskFactors(stored[i]) = stored[i].riskFactors

\* C25 as stated: every submission and every Analyze Lab Values action
\* invokes the scorer exactly once, whatever the form holds
C25_Original ==
  [][/\ Submit => calls' = 1
     /\ analyzeLabResults => calls' = 1]_vars

\* C25 (amended): every submission invokes the scorer exactly once; an
\* Analyze Lab Values action invokes it exactly once when some lab value is
\* supplied, and not at all when none is
C25_OncePerAction ==
  [][/\ Submit => calls' = 1
     /\ analyzeLabResults =>
          calls' = (IF NoLabSupplied(form) THEN 0 ELSE 1)]_vars

\* an Analyze Lab Values action on a form without lab values has returned
\* without a call
C25_Witness ==
  /\ page = "form"
  /\ toast = "No lab values entered to analyze"
  /\ calls = 0
  /\ labAnalysis = Null
  /\ NoLabSupplied(form)

\* C26: whenever the severe calcitonin label is among the factors, abnormal
\* is true, details holds an entry for calcitonin above its range, and the
\* score is at least 45, so that the tier is not low
C26_SevereLabelImplies ==
  (pc = "done" /\ SevereLabel \in Range(result.factors)) =>
    /\ result.labResultsAnalysis.abnormal
    /\ \E i \in EntriesFor(result.labResultsAnalysis.details, "calcitonin") :
          result.labResultsAnalysis.details[i].side = "above"
    /\ result.score >= 45
    /\ result.risk # "low"

\* the severe label with the least score, 45: the entry of calcitonin is the
\* only one in details and no base condition holds
C26_Witness ==
  /\ pc = "done"
  /\ SevereLabel \in Range(result.factors)
  /\ result.score = 45
  /\ result.risk = "moderate"
  /\ Len(result.labResultsAnalysis.details) = 1

\* C27: on the Results page, once loading has finished, either the patient
\* shown is a stored record whose id is the id of the route, or no patient is
\* shown and the page says Patient Not Found
C27_ShownPatientIsOfRoute ==
  (page = "results" /\ ~loading) =>
    \/ /\ resultsView = "patient"
       /\ \E i \in 1..Len(stored) : stored[i] = patient
       /\ toString(patient.id) = routeId
    \/ /\ resultsView = "Patient Not Found"
       /\ patient = Null

\* C28: whenever onSubmit shows the notification of success, the new record
\* has been written at the end of the stored list and the navigation to
\* /results/<id> of that record is pending
C28_SuccessMeansStored ==
  [][(Submit /\ toast' = "Patient data submitted successfully") =>
       /\ Len(stored') = Len(stored) + 1
       /\ stored'[Len(stored')].id \in timers']_vars

\* C29: on the history page the list in memory is the stored list, after the
\* load and after every delete and clear-all; when the write of a delete or
\* of a clear-all fails, neither list changes and the notification is the
\* one of the failure
C29_HistoryInSync ==
  [][/\ page' = "history" => patients' = stored'
     /\ \A i \in 1..MaxTime :
          handleDeletePatient(i, FALSE) =>
            /\ UNCHANGED <<stored, patients>>
            /\ toast' = "Failed to delete patient record"
     /\ handleDeleteAllPatients(FALSE) =>
          /\ UNCHANGED <<stored, patients>>
          /\ toast' = "Failed to delete all patient records"]_vars

\* a delete whose write failed, with records in the list
C29_Witness ==
  /\ page = "history"
  /\ toast = "Failed to delete patient record"
  /\ Len(patients) = 2
  /\ patients = stored

\* the place of a tab in the fixed order
TabIndex(tab) == CHOOSE i \in 1..Len(TabOrder) : TabOrder[i] = tab

\* C30: activeTab is always one of the four tabs; the Next button moves it
\* one tab forward and the Previous button one tab backward in the order
\* personalInfo, medicalHistory, symptoms, labResults; nextTab leaves the last
\* tab and prevTab the first tab as it is; prevTab undoes nextTab on every
\* tab but the last
C30_TabsInOrder ==
  [][/\ activeTab' \in Range(TabOrder)
     /\ ClickNext => TabIndex(activeTab') = TabIndex(activeTab) + 1
     /\ ClickPrevious => TabIndex(activeTab') = TabIndex(activeTab) - 1
     /\ nextTab("labResults") = "labResults"
     /\ prevTab("personalInfo") = "personalInfo"
     /\ activeTab # "labResults" =>
          prevTab(nextTab(activeTab)) = activeTab]_vars

\* the last tab, where Next is not shown, with an analysis that only that
\* tab offers
C30_Witness ==
  /\ page = "form"
  /\ activeTab = "labResults"
  /\ labAnalysis # Null

====
